---------------------------- MODULE Spec2Model ----------------------------
(***************************************************************************)
(* Model of the sandbox deployment action (src/index.js, src/network.js). *)
(*                                                                         *)
(* The program is one async function (the IIFE at index.js:375-525) that   *)
(* suspends at every await.  The model has one action per awaited call:    *)
(* the start notification, reading the inputs, the head of the chain loop, *)
(* getLatestBlockNumber, createNode, one iteration of checkNodeLiveness,   *)
(* executeDeploy, processBroadcastDirectory (+ the push of the record),    *)
(* the summary with the final notification, and the catch handler.         *)
(*                                                                         *)
(* Everything the program gets from outside (HTTP answers, the exit code   *)
(* of the deploy command, the files the command leaves on disk, the random *)
(* suffix of the sandbox id) is chosen with \E from small sets.            *)
(***************************************************************************)
EXTENDS Integers, Sequences, FiniteSets, TLC

\* ------------------------------------------------------------------ bounds

\* Longest chain list of the "network" input that is explored.
MaxChains == 2

\* Largest number of files under broadcast/ in the trees that reconciliation
\* is explored on.
MaxFiles == 2

\* ------------------------------------------------------- program constants

\* checkNodeLiveness(url, maxRetries = 10, delay = 5000)      index.js:217
DefaultMaxRetries == 10

\* ------------------------------------------------------------ JS values

\* JavaScript undefined, for an absent chainId or blockNumber.
Undefined == -1
\* JavaScript NaN, the result of parseInt on text that holds no number.
NaN == -2

\* JavaScript null.
Null == -3

\* Truthiness of a number-or-undefined value (0, NaN, null and undefined are
\* falsy).
Truthy(v) == v # Undefined /\ v # NaN /\ v # Null /\ v # 0

\* v || null
OrNull(v) == IF Truthy(v) THEN v ELSE Null

\* ---------------------------------------------------------------- text

DigitChars == <<"0", "1", "2", "3", "4", "5", "6", "7", "8", "9">>

RECURSIVE toString(_)
\* Number.prototype.toString for a non-negative integer: its decimal digits.
toString(n) ==
    IF n < 10 THEN <<DigitChars[n + 1]>>
    ELSE toString(n \div 10) \o <<DigitChars[(n % 10) + 1]>>

\* The digits of radix 16; the first ten are the digits of radix 10.
HexChars == DigitChars \o <<"a", "b", "c", "d", "e", "f">>

IsDigit(c, radix) == \E d \in 1..radix : HexChars[d] = c

DigitOf(c) == (CHOOSE d \in 1..16 : HexChars[d] = c) - 1

RECURSIVE ParseDigits(_, _, _)
\* The value of the longest prefix of `text` made of digits of `radix`,
\* continuing from the value acc of the digits already read.
ParseDigits(text, radix, acc) ==
    IF text = <<>> \/ ~IsDigit(Head(text), radix) THEN acc
    ELSE ParseDigits(Tail(text), radix, acc * radix + DigitOf(Head(text)))

\* Mutant: the prefix 0x is not recognised, and parsing stops at the x.
parseInt_decimalOnly(text) ==
    IF text = <<>> \/ ~IsDigit(text[1], 10) THEN NaN
    ELSE ParseDigits(text, 10, 0)

\* parseInt(text) without a radix, for text without sign or leading blanks:
\* radix 16 after the prefix 0x, radix 10 otherwise; the digits up to the
\* first character that is no digit are read, and NaN results when there is
\* none.
parseInt(text) ==
    LET hex   == Len(text) >= 2 /\ text[1] = "0" /\ text[2] = "x"
        body  == IF hex THEN SubSeq(text, 3, Len(text)) ELSE text
        radix == IF hex THEN 16 ELSE 10
    IN  IF body = <<>> \/ ~IsDigit(body[1], radix) THEN NaN
        ELSE ParseDigits(body, radix, 0)

\* String.prototype.includes on texts given as sequences of characters.
includes(text, sub) ==
    \E i \in 0..(Len(text) - Len(sub)) :
        \A j \in 1..Len(sub) : text[i + j] = sub[j]

\* -------------------------------------------------------- network.js table

\* The chainIds of the model.  1 and 137 are keys of RPC_URL (network.js:2,4),
\* 5 is not a key of the table.
ChainIds == {1, 137, 5}

\* RPC_URL[chainId].urls.length for the keys of the table that the model uses
\* (every list of the table holds exactly one URL).
RpcUrlCount == [c \in {1, 137} |-> 1]

Configured(chainId) == chainId \in DOMAIN RpcUrlCount

\* Mutant: the cursor is advanced without the modulo.
getRpc_noWrap(index, length) == [url |-> index, index |-> index + 1]

\* getRpc for a key of the table whose cursor is `index` and whose list has
\* `length` URLs: the position of the URL it returns and the new cursor
\*                                                          network.js:34-40
getRpc(index, length) == [url |-> index, index |-> (index + 1) % length]

\* ------------------------------------------------------------ disk content

\* A transaction of a run file.  "" stands for a missing (falsy) field.
Tx(hash, name, addr) ==
    [hash |-> hash, contractName |-> name, contractAddress |-> addr]

\* A receipt of a run file whose blockNumber is the given text.
RcText(hash, text, logs) ==
    [transactionHash |-> hash, blockNumber |-> text, logs |-> logs,
     decodedLogs |-> <<>>]

\* A receipt of a run file whose blockNumber is the decimal text of `block`.
Rc(hash, block, logs) == RcText(hash, toString(block), logs)

Lg(data) == [data |-> data, topics |-> <<data>>]

\* A file found by walk() under broadcast/: its name, its absolute path as a
\* sequence of characters, whether readFile + JSON.parse succeed on it, and
\* the three arrays of its JSON (a missing array is the empty sequence: both
\* contribute nothing to the merge, index.js:113-121).
RunFile(name, path, ok, txs, rcs, libs) ==
    [name |-> name, path |-> path, isFile |-> TRUE, parses |-> ok,
     transactions |-> txs, receipts |-> rcs, libraries |-> libs]

\* Paths /w/broadcast/<script>/<chain>/run-latest.json, one character each
\* for the directories that are not the chain directory.
PathOf(chainDir) == <<"/", "w", "/", "b", "/", "s", "/">> \o chainDir \o <<"/", "r">>

\* A working directory: whether broadcast/ exists, whether every JSON file
\* under build/ can be read and parsed, and the files under broadcast/ in the
\* order walk() yields them.
Tree(hasBroadcast, buildOk, files) ==
    [broadcast |-> hasBroadcast, buildOk |-> buildOk, files |-> files]

NoBroadcastTree == Tree(FALSE, TRUE, <<>>)

EmptyBroadcastTree == Tree(TRUE, TRUE, <<>>)

\* One run file for chain 1 holding two deployments out of block order and
\* one transaction without a contract address.
Chain1Tree ==
    Tree(TRUE, TRUE,
         <<RunFile("run-latest.json", PathOf(<<"1">>), TRUE,
                   <<Tx("a", "A", "xa"), Tx("b", "B", "xb"), Tx("c", "C", "")>>,
                   <<Rc("a", 30, <<Lg("d")>>), Rc("b", 10, <<>>)>>,
                   <<"lib">>)>>)

\* Run files for chains 1 and 137, and a file with another name.
TwoChainTree ==
    Tree(TRUE, TRUE,
         <<RunFile("run-latest.json", PathOf(<<"1", "3", "7">>), TRUE,
                   <<Tx("p", "P", "xp")>>, <<Rc("p", 7, <<>>)>>, <<>>),
           RunFile("run-1.json", PathOf(<<"1">>), TRUE,
                   <<Tx("q", "Q", "xq")>>, <<>>, <<>>),
           RunFile("run-latest.json", PathOf(<<"1">>), TRUE,
                   <<Tx("a", "", "xa")>>, <<Rc("a", 3, <<>>)>>, <<>>)>>)

\* A run file for chain 1 that is not valid JSON.
BadJsonTree ==
    Tree(TRUE, TRUE,
         <<RunFile("run-latest.json", PathOf(<<"1">>), FALSE, <<>>, <<>>, <<>>)>>)

\* A build/ directory with a JSON file that cannot be parsed.
BadBuildTree == Tree(TRUE, FALSE, <<>>)

\* What the deploy command may leave on disk.
Trees ==
    {NoBroadcastTree, EmptyBroadcastTree, Chain1Tree, TwoChainTree,
     BadJsonTree, BadBuildTree}

\* The JSON of a run file: whether it parses, and its three arrays.
Content(ok, txs, rcs, libs) ==
    [ok |-> ok, transactions |-> txs, receipts |-> rcs, libraries |-> libs]

\* Two deployments whose receipts are out of block order (10 before 9).
TwoOutOfOrder ==
    Content(TRUE, <<Tx("a", "A", "xa"), Tx("b", "B", "xb")>>,
            <<Rc("a", 10, <<Lg("d")>>), Rc("b", 9, <<>>)>>, <<"lib1">>)

\* The run file contents of the trees that reconciliation is explored on:
\* besides TwoOutOfOrder, one deployment in block 9; a transaction without
\* receipt before one whose receipt has a hexadecimal blockNumber; a
\* transaction and no receipts; text that is not JSON; a receipt without
\* transaction.
Contents ==
    {TwoOutOfOrder,
     Content(TRUE, <<Tx("c", "C", "xc")>>, <<Rc("c", 9, <<>>)>>, <<>>),
     Content(TRUE, <<Tx("d", "D", ""), Tx("e", "E", "xe")>>,
             <<RcText("e", <<"0", "x", "1", "0">>, <<Lg("g"), Lg("h")>>)>>, <<"lib2">>),
     Content(TRUE, <<Tx("f", "F", "xf")>>, <<>>, <<>>),
     Content(FALSE, <<>>, <<>>, <<>>),
     Content(TRUE, <<>>, <<Rc("g", 3, <<>>)>>, <<>>)}

\* Names of the script directories under broadcast/, one per file.
ScriptDirs == <<"s", "t", "u", "v">>

\* Names of the chain directories: chains 1, 137 and 56.
ChainDirs == {<<"1">>, <<"1", "3", "7">>, <<"5", "6">>}

\* /w/broadcast/<k-th script>/<chain>/<file>
PathAt(k, chainDir) ==
    <<"/", "w", "/", "b", "/", ScriptDirs[k], "/">> \o chainDir \o <<"/", "r">>

\* A file to be placed under a script directory: its name, its chain
\* directory and its content.
FileChoices ==
    {[name |-> "run-latest.json", dir |-> d, content |-> c] :
         d \in ChainDirs, c \in Contents}
        \cup {[name |-> "run-1.json", dir |-> <<"1">>, content |-> TwoOutOfOrder]}

RunFileAt(k, f) ==
    RunFile(f.name, PathAt(k, f.dir), f.content.ok, f.content.transactions,
            f.content.receipts, f.content.libraries)

\* The trees that reconciliation is explored on: up to MaxFiles files in
\* every walk order, with a build/ directory whose JSON files all parse or
\* not, and the trees of the deploy command above.
ReconcileTrees ==
    {Tree(TRUE, buildOk, [k \in 1..Len(fs) |-> RunFileAt(k, fs[k])]) :
         fs \in UNION {[1..m -> FileChoices] : m \in 0..MaxFiles},
         buildOk \in BOOLEAN}
        \cup Trees


\* ------------------------------------------------- artifact reconciliation

\* Mutant: every file's array replaces what the earlier files gave.
Flatten_lastOnly(ss) == IF ss = <<>> THEN <<>> ELSE ss[Len(ss)]

RECURSIVE Flatten(_)
\* Array.prototype.push(...xs) applied file after file: the concatenation.
Flatten(ss) == IF ss = <<>> THEN <<>> ELSE Head(ss) \o Flatten(Tail(ss))

\* Mutant: the comparison of the hashes never succeeds.
findIndex_noMatch(receipts, hash) == -1

\* Array.prototype.findIndex(receipt => receipt.transactionHash === hash):
\* the 0-based index of the first match, -1 when there is none.
findIndex(receipts, hash) ==
    IF \E i \in 1..Len(receipts) : receipts[i].transactionHash = hash
    THEN (CHOOSE i \in 1..Len(receipts) :
              /\ receipts[i].transactionHash = hash
              /\ \A j \in 1..(i - 1) : receipts[j].transactionHash # hash) - 1
    ELSE -1

\* Mutant: the comparator key(b) - key(a), a stable sort in descending order.
StableSortByKey_descending(s, key) ==
    LET n == Len(s)
        Rank(i) == Cardinality({j \in 1..n :
                       key[j] > key[i] \/ (key[j] = key[i] /\ j < i)}) + 1
    IN  [p \in 1..n |-> s[CHOOSE i \in 1..n : Rank(i) = p]]

\* Array.prototype.sort with the comparator (a, b) => key(a) - key(b): a stable
\* sort by key.  Element i moves to the position given by the number of
\* elements that sort before it.
StableSortByKey(s, key) ==
    LET n == Len(s)
        Rank(i) == Cardinality({j \in 1..n :
                       key[j] < key[i] \/ (key[j] = key[i] /\ j < i)}) + 1
    IN  [p \in 1..n |-> s[CHOOSE i \in 1..n : Rank(i) = p]]

\* Mutant: the decoded logs come out in reverse order.
decodeLogs_reversed(logs) ==
    [i \in 1..Len(logs) |->
        [eventName |-> "Event", data |-> logs[Len(logs) + 1 - i].data,
         topics |-> logs[Len(logs) + 1 - i].topics]]

\* receipt.logs.map(log => ({eventName: "Event", data, topics}))  index.js:145
decodeLogs(logs) ==
    [i \in 1..Len(logs) |->
        [eventName |-> "Event", data |-> logs[i].data, topics |-> logs[i].topics]]

\* The value processBroadcastDirectory resolves to, or the fact that it threw.
Reconciled(threw, isNull, txs, rcs, libs) ==
    [threw |-> threw, isNull |-> isNull,
     transactions |-> txs, receipts |-> rcs, libraries |-> libs]

\* The test of index.js:103-107 on one walked entry, for a defined chainId.
MatchesChain(entry, chainId) ==
    /\ entry.isFile
    /\ entry.name = "run-latest.json"
    /\ includes(entry.path, toString(chainId))

\* Three empty arrays.
NoDeployments == [transactions |-> <<>>, receipts |-> <<>>, libraries |-> <<>>]

\* Mutant: the accumulator is created once and shared by all calls, so that
\* a call starts from what the previous call left in it.
NewDeployments_shared(previous) == previous

\* const deployments = {transactions: [], receipts: [], libraries: []}: every
\* call starts from empty arrays of its own, whatever the arrays of the
\* previous call hold                                       index.js:95-99
NewDeployments(previous) == NoDeployments

\* processBroadcastDirectory(chainId, workingDir) on the disk content `tree`,
\* when the arrays returned by the previous call are `previous`.
processBroadcastDirectoryFrom(previous, chainId, tree) ==
    LET Named(e)   == e.isFile /\ e.name = "run-latest.json"
        Match(e)   == MatchesChain(e, chainId)
        \* index.js:101-123: the three arrays after the walk over `matching`
        Collected(matching) ==
            LET start == NewDeployments(previous)
            IN  [transactions |->
                     start.transactions
                         \o Flatten([i \in 1..Len(matching) |-> matching[i].transactions]),
                 receipts |->
                     start.receipts
                         \o Flatten([i \in 1..Len(matching) |-> matching[i].receipts]),
                 libraries |->
                     start.libraries
                         \o Flatten([i \in 1..Len(matching) |-> matching[i].libraries])]
        \* index.js:126-129
        SortReceipts(rcs) ==
            StableSortByKey(rcs, [i \in 1..Len(rcs) |-> parseInt(rcs[i].blockNumber)])
        \* index.js:132-140
        SortTransactions(txs, sortedRcs) ==
            StableSortByKey(txs,
                [i \in 1..Len(txs) |-> findIndex(sortedRcs, txs[i].hash)])
        \* index.js:143-157
        Decoded(sortedRcs) ==
            [i \in 1..Len(sortedRcs) |->
                [sortedRcs[i] EXCEPT !.decodedLogs = decodeLogs(sortedRcs[i].logs)]]
        \* index.js:125-158 on the collected arrays d
        Sorted(d) ==
            CHOOSE r \in {Reconciled(FALSE, FALSE,
                                     SortTransactions(d.transactions, sortedRcs),
                                     Decoded(sortedRcs), d.libraries) :
                              sortedRcs \in {SortReceipts(d.receipts)}} : TRUE
        \* index.js:101-160 when the walk yields the files `matching`
        Merged(matching) ==
            IF \E i \in 1..Len(matching) : ~matching[i].parses
            THEN Reconciled(TRUE, TRUE, <<>>, <<>>, <<>>)       \* index.js:110-111
            ELSE CHOOSE r \in {IF Len(d.receipts) > 0
                               THEN Sorted(d)
                               ELSE Reconciled(FALSE, FALSE, d.transactions,
                                               d.receipts, d.libraries) :
                                  d \in {Collected(matching)}} : TRUE
    IN  IF ~tree.broadcast
        THEN Reconciled(FALSE, TRUE, <<>>, <<>>, <<>>)          \* index.js:68-71
        ELSE IF ~tree.buildOk
        THEN Reconciled(TRUE, TRUE, <<>>, <<>>, <<>>)           \* index.js:85-86
        ELSE IF chainId = Undefined
        THEN \* chainId.toString() is reached on the first run-latest.json
             IF \E i \in 1..Len(tree.files) : Named(tree.files[i])
             THEN Reconciled(TRUE, TRUE, <<>>, <<>>, <<>>)
             ELSE Reconciled(FALSE, FALSE, <<>>, <<>>, <<>>)
        ELSE CHOOSE r \in {Merged(matching) :
                               matching \in {SelectSeq(tree.files, Match)}} : TRUE

\* processBroadcastDirectory(chainId, workingDir) on the disk content `tree`.
processBroadcastDirectory(chainId, tree) ==
    processBroadcastDirectoryFrom(NoDeployments, chainId, tree)

\* ------------------------------------------------------------ notification

\* extractContractData (index.js:278-295) for one record: the transactions
\* that have a contract name, a hash and a contract address.  rpcUrl and
\* sandboxId of a record are never falsy, so `|| null` leaves them as they are.
ExtractItem(item) ==
    LET Usable(tx) == tx.contractName # "" /\ tx.hash # "" /\ tx.contractAddress # ""
    IN  [chainId |-> OrNull(item.chainId),
         rpcUrl |-> item.rpcUrl, sandboxId |-> item.sandboxId,
         transactions |-> IF item.deployments.isNull THEN <<>>
                          ELSE SelectSeq(item.deployments.transactions, Usable)]

extractContractData(data) == [i \in 1..Len(data) |-> ExtractItem(data[i])]

\* validateDeployment(extractedData).valid                    index.js:356-373
validateDeployment(extracted) ==
    \E i \in 1..Len(extracted) : Len(extracted[i].transactions) > 0

\* Whether sendNotificationToBackend runs the validation pass  index.js:312
Validates(status) == status # "started" /\ status # "failed"

\* Mutant: the escalation of index.js:342-344 is missing.
sendNotificationToBackend_noEscalation(deploymentData, postOk) ==
    LET deployments == IF Validates(deploymentData.status)
                       THEN extractContractData(deploymentData.deployments)
                       ELSE <<>>
        invalid     == Validates(deploymentData.status) /\ ~validateDeployment(deployments)
    IN  [status |-> IF invalid THEN "failed" ELSE deploymentData.status,
         deployments |-> deployments, posted |-> postOk,
         validationFailed |-> invalid, setFailed |-> FALSE]

\* sendNotificationToBackend(deploymentData) when the POST of index.js:339
\* succeeds (postOk) or throws: the payload it builds, whether the POST went
\* through, and whether it reaches core.setFailed (index.js:342-344).
sendNotificationToBackend(deploymentData, postOk) ==
    LET deployments == IF Validates(deploymentData.status)
                       THEN extractContractData(deploymentData.deployments)
                       ELSE <<>>
        invalid     == Validates(deploymentData.status) /\ ~validateDeployment(deployments)
        status      == IF invalid THEN "failed" ELSE deploymentData.status
    IN  [status |-> status, deployments |-> deployments, posted |-> postOk,
         validationFailed |-> invalid,
         setFailed |-> postOk /\ status = "failed" /\ deploymentData.status # "failed"]

\* ------------------------------------------------------------------ inputs

\* One element of the "network" input: {chainId, blockNumber?}.
Net(chainId, blockNumber) == [chainId |-> chainId, blockNumber |-> blockNumber]

\* The chain requests of the model: latest block on a configured chain, a
\* literal block, a chain without endpoints, block 0, and a missing chainId.
Requests ==
    {Net(1, Undefined), Net(137, 5), Net(5, Undefined), Net(1, 0),
     Net(Undefined, 5)}

RECURSIVE SeqsUpTo(_, _)
\* The sequences of distinct elements of S of length at most n.
SeqsUpTo(S, n) ==
    IF n = 0 THEN {<<>>}
    ELSE LET shorter == SeqsUpTo(S, n - 1)
         IN  shorter \cup
                 UNION {{Append(s, x) : x \in S \ {s[i] : i \in 1..Len(s)}} :
                            s \in shorter}

\* The "network" input: a JSON array (of pairwise different requests, or
\* the same request for the latest block of chain 1 twice), text that is not
\* JSON, or JSON that is not an array.
Inputs ==
    {[kind |-> "array", network |-> l] : l \in SeqsUpTo(Requests, MaxChains)}
        \cup {[kind |-> "array", network |-> <<Net(1, Undefined), Net(1, Undefined)>>],
              [kind |-> "notjson", network |-> <<>>],
              [kind |-> "notarray", network |-> <<>>]}

\* Exit codes of the deploy command; ExitNull is the null code of a child
\* killed by a signal.
ExitNull == -1
ExitCodes == {0, 1, 2, ExitNull}
\* No deploy command is being handled.
NoExit == -2

\* Answers to the eth_chainId probe: axios throws (network error or non-2xx),
\* or resolves with a status and a body whose result is absent, present but
\* falsy (null, "", 0) or truthy.
Probe(threw, status, result) == [threw |-> threw, status |-> status, result |-> result]
ProbeResponses ==
    {Probe(TRUE, 0, "absent"), Probe(FALSE, 200, "truthy"), Probe(FALSE, 200, "falsy"),
     Probe(FALSE, 200, "absent"), Probe(FALSE, 204, "truthy")}
NoProbe == Probe(FALSE, 0, "none")

\* The answer of the provisioning service to the k-th creation request: the
\* URL and the mnemonic of a new sandbox, different from every earlier one.
CreateResponse(k) == [rpcUrl |-> <<"rpc", k>>, mnemonic |-> <<"mnemonic", k>>]

\* `${repoName}-${commitHash.slice(0, 8)}-${randomBytes(4).toString("hex")}`
\* (index.js:178); the k-th call draws the k-th random suffix.
SandboxIdOf(k) == <<"repo", "commit8", <<"random", k>>>>

NoUrl == <<>>

\* Outcomes of the fetch in getLatestBlockNumber: the request fails, the
\* status is not ok, or the body's result parses to a block number (NaN when
\* the body has no result).
ResolveOutcomes ==
    {[threw |-> TRUE, block |-> NaN], [threw |-> FALSE, block |-> 7],
     [threw |-> FALSE, block |-> NaN]}

\* Mutant: the catch of getLatestBlockNumber logs the error and returns
\* undefined instead of rethrowing it.
getLatestBlockNumber_swallowed(chainId, out) ==
    IF ~Configured(chainId) \/ out.threw
    THEN [threw |-> FALSE, block |-> Undefined]
    ELSE [threw |-> FALSE, block |-> out.block]

\* getLatestBlockNumber(chainId) when the fetch has the outcome `out`: getRpc
\* throws a TypeError for a chainId that is no key of RPC_URL
\* (parseInt(undefined) is NaN, no key either), a failed fetch and a status
\* that is not ok throw, and the catch rethrows       network.js:34-40, 42-71
getLatestBlockNumber(chainId, out) ==
    IF ~Configured(chainId) \/ out.threw
    THEN [threw |-> TRUE, block |-> Undefined]
    ELSE [threw |-> FALSE, block |-> out.block]

\* ------------------------------------------------------------------- state

VARIABLES
    input,           \* the "network" input of the action
    pc,              \* where the main function is suspended
    network,         \* const network (index.js:382)
    idx,             \* position of `net` in the for-of loop (1-based)
    blockNumber,     \* let blockNumber (index.js:403)
    rpcUrl,          \* rpcUrl of the current chain's sandbox
    sandboxId,       \* sandboxId of the current chain's sandbox
    created,         \* number of calls of createNode so far
    sandboxRequests, \* bodies of the creation requests sent, in order
    attempts,        \* let attempts of checkNodeLiveness
    allDeployments,  \* const allDeployments (index.js:397)
    env,             \* variables exported with core.exportVariable
    RPC_URL,         \* RPC_URL[chainId].index of network.js
    disk,            \* content of the working directory
    setFailedCalls,  \* the call sites that have called core.setFailed
    notifications,   \* the notifications attempted, in order
    error,           \* whether the catch of index.js:515 was entered
    probes,          \* probes issued by the current checkNodeLiveness call
    delays,          \* delays awaited by the current checkNodeLiveness call
    lastProbe,       \* answer to the latest probe
    exitCode,        \* exit code of the deploy command just run
    deployed,        \* requests whose deploy command was spawned
    reconciled,      \* requests for which processBroadcastDirectory ran
    notLive,         \* requests whose checkNodeLiveness returned false
    exitedOne,       \* requests whose deploy command exited with code 1
    thrownBy,        \* the call whose error entered the catch of index.js:515
    resolvedFor,     \* requests for which getLatestBlockNumber was called
    provisionedFor,  \* requests for which createNode was called
    rpcCalls         \* per chainId, the positions in urls that getRpc returned

vars ==
    <<input, pc, network, idx, blockNumber, rpcUrl, sandboxId, created,
      sandboxRequests, attempts,
      allDeployments, env, RPC_URL, disk, setFailedCalls, notifications, error,
      probes, delays, lastProbe, exitCode, deployed, reconciled, notLive, exitedOne,
      thrownBy, resolvedFor, provisionedFor, rpcCalls>>

\* Groups of variables for the frame conditions.
chainState == <<blockNumber, rpcUrl, sandboxId, created, sandboxRequests, env>>
pollState == <<attempts, probes, delays, lastProbe>>
history == <<exitCode, deployed, reconciled, notLive, exitedOne>>
calls == <<resolvedFor, provisionedFor, rpcCalls>>

\* attempts, probes and lastProbe describe the call of checkNodeLiveness that
\* is running or has just returned; the step after its return drops them.
PollDropped == attempts' = 0 /\ probes' = 0 /\ delays' = 0 /\ lastProbe' = NoProbe

\* The platform failure signal: core.setFailed was called at least once.
Failed == setFailedCalls # {}

Init ==
    /\ input \in Inputs
    /\ pc = "start"
    /\ network = <<>>
    /\ idx = 1
    /\ blockNumber = Undefined
    /\ rpcUrl = NoUrl
    /\ sandboxId = <<>>
    /\ created = 0
    /\ sandboxRequests = <<>>
    /\ attempts = 0
    /\ allDeployments = <<>>
    /\ env = [BUILDBEAR_RPC_URL |-> NoUrl, MNEMONIC |-> <<>>]
    /\ RPC_URL = [c \in DOMAIN RpcUrlCount |-> 0]
    /\ disk = NoBroadcastTree
    /\ setFailedCalls = {}
    /\ notifications = <<>>
    /\ error = FALSE
    /\ probes = 0
    /\ delays = 0
    /\ lastProbe = NoProbe
    /\ exitCode = NoExit
    /\ deployed = {}
    /\ reconciled = {}
    /\ notLive = {}
    /\ exitedOne = {}
    /\ thrownBy = "none"
    /\ resolvedFor = {}
    /\ provisionedFor = {}
    /\ rpcCalls = [c \in DOMAIN RpcUrlCount |-> <<>>]

\* ----------------------------------------------------------------- helpers

\* The request the loop is at.
net == network[idx]

\* Entering the catch of index.js:515 with an error thrown by `site`.
Throw(site) == pc' = "catch" /\ error' = TRUE /\ thrownBy' = site

\* The awaited call returned normally.
NoThrow == error' = error /\ thrownBy' = thrownBy

\* Mutant: the catch of sendNotificationToBackend rethrows the error of the
\* POST.
NotificationThrows_rethrown(postOk) == ~postOk

\* Whether sendNotificationToBackend throws to its caller: its whole body is
\* inside try, and the catch logs the error and returns    index.js:345-348
NotificationThrows(postOk) == FALSE

\* Mutant: the notification is not attempted.
Notify_notAttempted(n) ==
    /\ notifications' = notifications
    /\ setFailedCalls' = setFailedCalls

\* A notification attempt is appended to the log, and core.setFailed is called
\* from sendNotificationToBackend when it reaches index.js:343.
Notify(n) ==
    /\ notifications' = Append(notifications, n)
    /\ setFailedCalls' =
           setFailedCalls \cup
               (IF n.setFailed THEN {"sendNotificationToBackend"} ELSE {})

\* Mutant: the loop test off by one (attempts <= maxRetries).
LoopContinues_offByOne(a, maxRetries) == a <= maxRetries

\* while (attempts < maxRetries)                                 index.js:219
LoopContinues(a, maxRetries) == a < maxRetries

\* Mutant: the polarity of the earlier revision, !resp.data.result
\* (unnamed/part_001:96).
ProbeLive_resultAbsent(resp) ==
    ~resp.threw /\ resp.status = 200 /\ resp.result # "truthy"

\* resp.status === 200 && resp.data.result                       index.js:229
\* (a probe that throws never reaches the test).
ProbeLive(resp) == ~resp.threw /\ resp.status = 200 /\ resp.result = "truthy"

\* Mutant: every non-zero exit code is flagged (code != 0).
DeployFailed_anyNonZero(code) == code # 0

\* if (code == 1)                                                index.js:260
DeployFailed(code) == code = 1

\* Mutant: resolve() moved into the else branch, so that the promise never
\* settles after exit code 1.
DeployResolves_onlyInElse(code) == code # 1

\* Mutant: resolve() is never called, so that the promise never settles.
DeployResolves_never(code) == FALSE

\* resolve() is called on every exit, after either branch       index.js:266
DeployResolves(code) == TRUE

\* Mutant: the test of isNodeLive is lost and every chain is deployed.
AfterPoll_alwaysDeploy(isNodeLive) == "deploy"

\* if (isNodeLive) {...} else {...}: where the chain loop goes after
\* checkNodeLiveness returned                              index.js:425, 450
AfterPoll(isNodeLive) == IF isNodeLive THEN "deploy" ELSE "loop"

\* Mutant: a failed creation request is sent again.
AfterCreate_retry(ok) == IF ok THEN "poll" ELSE "create"

\* Where main goes after createNode: on to the liveness poll when it
\* returned, to the catch of main when it threw (its own catch rethrows)
\*                                                   index.js:201-207, 415
AfterCreate(ok) == IF ok THEN "poll" ELSE "catch"

\* Mutant: only the first sandbox of a run is exported.
exportVariables_firstOnly(exported, resp) ==
    IF exported.BUILDBEAR_RPC_URL = NoUrl
    THEN [BUILDBEAR_RPC_URL |-> resp.rpcUrl, MNEMONIC |-> resp.mnemonic]
    ELSE exported

\* core.exportVariable("BUILDBEAR_RPC_URL", ...) and
\* core.exportVariable("MNEMONIC", ...): both variables are overwritten
\*                                                        index.js:195-196
exportVariables(exported, resp) ==
    [BUILDBEAR_RPC_URL |-> resp.rpcUrl, MNEMONIC |-> resp.mnemonic]

\* blockNumber ? Number(blockNumber) : undefined                 index.js:185
RequestedBlock(b) == IF Truthy(b) THEN b ELSE Undefined

\* The body of the creation request                          index.js:182-186
\* (Number(undefined) is NaN).
SandboxRequest(chainId, id, b) ==
    [chainId |-> IF chainId = Undefined THEN NaN ELSE chainId,
     nodeName |-> id, blockNumber |-> RequestedBlock(b)]

\* Mutant: the record carries the sandbox of the first creation of the run.
DeploymentDetails_firstSandbox(request, url, id, data) ==
    [chainId |-> request.chainId, rpcUrl |-> CreateResponse(1).rpcUrl,
     sandboxId |-> SandboxIdOf(1), status |-> "success",
     deployments |-> [isNull |-> data.isNull, transactions |-> data.transactions,
                      receipts |-> data.receipts, libraries |-> data.libraries]]

\* const deploymentDetails = {...}                           index.js:440-446
DeploymentDetails(request, url, id, data) ==
    [chainId |-> request.chainId, rpcUrl |-> url, sandboxId |-> id,
     status |-> "success",
     deployments |-> [isNull |-> data.isNull, transactions |-> data.transactions,
                      receipts |-> data.receipts, libraries |-> data.libraries]]

\* Mutant: unshift instead of push.
Push_unshift(arr, x) == <<x>> \o arr

\* Mutant: the push is lost.
Push_dropped(arr, x) == arr

\* Mutant: the new record overwrites the last one.
Push_overwrite(arr, x) ==
    IF arr = <<>> THEN <<x>> ELSE [arr EXCEPT ![Len(arr)] = x]

\* allDeployments.push(deploymentDetails)                        index.js:449
Push(arr, x) == Append(arr, x)

\* ----------------------------------------------------------------- actions

\* index.js:377-380: the "started" notification.
Main_Start ==
    /\ pc = "start"
    /\ \E postOk \in BOOLEAN :
           /\ Notify(sendNotificationToBackend(
                         [status |-> "started", deployments |-> <<>>], postOk))
           /\ IF NotificationThrows(postOk)
              THEN Throw("sendNotificationToBackend")
              ELSE pc' = "config" /\ NoThrow
    /\ UNCHANGED <<input, network, idx, allDeployments, RPC_URL, disk,
                   chainState, pollState, history, calls>>

\* index.js:382-400: JSON.parse of the "network" input, the other inputs, the
\* empty allDeployments, and the start of the for-of loop, which throws on a
\* value that is not iterable.
Main_ReadInputs ==
    /\ pc = "config"
    /\ IF input.kind = "array"
       THEN /\ network' = input.network
            /\ pc' = "loop"
            /\ NoThrow
       ELSE /\ network' = network
            /\ Throw(IF input.kind = "notjson" THEN "JSON.parse" ELSE "for-of")
    /\ idx' = 1
    /\ allDeployments' = <<>>
    /\ UNCHANGED <<input, RPC_URL, disk, setFailedCalls, notifications,
                   chainState, pollState, history, calls>>

\* index.js:400-411: the next element of the loop, or the end of the loop; a
\* request with a blockNumber uses it, one without goes to the resolver.
Main_LoopHead ==
    /\ pc = "loop"
    /\ IF idx > Len(network)
       THEN /\ pc' = "summary"
            /\ blockNumber' = blockNumber
       ELSE IF net.blockNumber = Undefined
       THEN /\ pc' = "resolve"
            /\ blockNumber' = Undefined
       ELSE /\ pc' = "create"
            /\ blockNumber' = net.blockNumber
    /\ PollDropped
    /\ UNCHANGED <<input, network, idx, rpcUrl, sandboxId, created,
                   sandboxRequests, env, allDeployments, RPC_URL, disk,
                   setFailedCalls, notifications, error, thrownBy, history, calls>>

\* network.js:34-71 called at index.js:407: getRpc advances the cursor of a
\* chainId that is a key of RPC_URL; the call throws or yields a block number.
GetLatestBlockNumber ==
    /\ pc = "resolve"
    /\ resolvedFor' = resolvedFor \cup {idx}
    /\ IF Configured(net.chainId)
       THEN LET rpc == getRpc(RPC_URL[net.chainId], RpcUrlCount[net.chainId])
            IN  /\ RPC_URL' = [RPC_URL EXCEPT ![net.chainId] = rpc.index]
                /\ rpcCalls' = [rpcCalls EXCEPT ![net.chainId] = Append(@, rpc.url)]
       ELSE UNCHANGED <<RPC_URL, rpcCalls>>
    /\ \E out \in ResolveOutcomes :
           LET r == getLatestBlockNumber(net.chainId, out)
           IN  IF r.threw
               THEN Throw("getLatestBlockNumber") /\ blockNumber' = blockNumber
               ELSE /\ blockNumber' = r.block
                    /\ pc' = "create"
                    /\ NoThrow
    /\ UNCHANGED <<input, network, idx, rpcUrl, sandboxId, created,
                   sandboxRequests, env, allDeployments, disk, setFailedCalls,
                   notifications, pollState, history, provisionedFor>>

\* index.js:176-208 called at index.js:415: one POST to the provisioning
\* service; on success the URL and mnemonic are exported, on failure the
\* error is rethrown.  checkNodeLiveness then starts with attempts = 0.
CreateNode ==
    /\ pc = "create"
    /\ created' = created + 1
    /\ provisionedFor' = provisionedFor \cup {idx}
    /\ sandboxRequests' =
           Append(sandboxRequests,
                  SandboxRequest(net.chainId, SandboxIdOf(created'), blockNumber))
    /\ \E ok \in BOOLEAN :
           IF ok
           THEN LET resp == CreateResponse(created')
                IN  /\ env' = exportVariables(env, resp)
                    /\ rpcUrl' = resp.rpcUrl
                    /\ sandboxId' = SandboxIdOf(created')
                    /\ pc' = AfterCreate(TRUE)
                    /\ NoThrow
           ELSE /\ IF AfterCreate(FALSE) = "catch"
                   THEN Throw("createNode")
                   ELSE pc' = AfterCreate(FALSE) /\ NoThrow
                /\ UNCHANGED <<env, rpcUrl, sandboxId>>
    /\ PollDropped
    /\ UNCHANGED <<input, network, idx, blockNumber, allDeployments, RPC_URL,
                   disk, setFailedCalls, notifications, history, resolvedFor,
                   rpcCalls>>

\* index.js:219-243: one iteration of the loop of checkNodeLiveness: a probe,
\* return true when it is live, otherwise the delay and attempts++.
CheckNodeLiveness_Probe ==
    /\ pc = "poll"
    /\ LoopContinues(attempts, DefaultMaxRetries)
    /\ \E resp \in ProbeResponses :
           /\ lastProbe' = resp
           /\ probes' = probes + 1
           /\ IF ProbeLive(resp)
              THEN /\ pc' = AfterPoll(TRUE)
                   /\ delays' = delays
                   /\ attempts' = attempts
              ELSE /\ pc' = "poll"
                   /\ delays' = delays + 1
                   /\ attempts' = attempts + 1
    /\ UNCHANGED <<input, network, idx, allDeployments, RPC_URL, disk,
                   setFailedCalls, notifications, error, thrownBy, chainState, history, calls>>

\* index.js:245-246 and 450-454: the loop of checkNodeLiveness ends, it
\* returns false, and the chain loop logs the skip and moves on.
CheckNodeLiveness_GiveUp ==
    /\ pc = "poll"
    /\ ~LoopContinues(attempts, DefaultMaxRetries)
    /\ notLive' = notLive \cup {idx}
    /\ pc' = AfterPoll(FALSE)
    /\ idx' = IF pc' = "loop" THEN idx + 1 ELSE idx
    /\ UNCHANGED <<input, network, allDeployments, RPC_URL, disk, setFailedCalls,
                   notifications, error, thrownBy, chainState, pollState, exitCode,
                   deployed, reconciled, exitedOne, calls>>

\* index.js:254-271 called at index.js:431: the deploy command runs, leaves
\* files on disk and exits; exit code 1 calls core.setFailed.
ExecuteDeploy ==
    /\ pc = "deploy"
    /\ \E code \in ExitCodes, tree \in Trees :
           /\ exitCode' = code
           /\ disk' = tree
           /\ setFailedCalls' =
                  setFailedCalls \cup
                      (IF DeployFailed(code) THEN {"executeDeploy"} ELSE {})
           /\ exitedOne' = IF code = 1 THEN exitedOne \cup {idx} ELSE exitedOne
           /\ pc' = IF DeployResolves(code) THEN "reconcile" ELSE "hung"
    /\ deployed' = deployed \cup {idx}
    /\ PollDropped
    /\ UNCHANGED <<input, network, idx, allDeployments, RPC_URL, notifications,
                   error, thrownBy, chainState, reconciled, notLive, calls>>

\* The arrays that the previous call of processBroadcastDirectory returned.
PreviousDeployments ==
    IF allDeployments = <<>> THEN NoDeployments
    ELSE LET last == allDeployments[Len(allDeployments)].deployments
         IN  [transactions |-> last.transactions, receipts |-> last.receipts,
              libraries |-> last.libraries]

\* index.js:434-449: processBroadcastDirectory, then the record is pushed; an
\* error of processBroadcastDirectory is rethrown (index.js:161-164).
ProcessBroadcastDirectory ==
    /\ pc = "reconcile"
    /\ \E data \in {processBroadcastDirectoryFrom(PreviousDeployments, net.chainId, disk)} :
           IF data.threw
           THEN /\ Throw("processBroadcastDirectory")
                /\ UNCHANGED <<allDeployments, idx>>
           ELSE /\ allDeployments' =
                       Push(allDeployments,
                            DeploymentDetails(net, rpcUrl, sandboxId, data))
                /\ idx' = idx + 1
                /\ pc' = "loop"
                /\ NoThrow
    /\ reconciled' = reconciled \cup {idx}
    /\ exitCode' = NoExit
    /\ UNCHANGED <<input, network, RPC_URL, disk, setFailedCalls, notifications,
                   chainState, pollState, deployed, notLive, exitedOne, calls>>

\* index.js:457-514: the printed summary and the "success" notification.
Main_Finish ==
    /\ pc = "summary"
    /\ \E postOk \in BOOLEAN :
           /\ Notify(sendNotificationToBackend(
                         [status |-> "success", deployments |-> allDeployments], postOk))
           /\ IF NotificationThrows(postOk)
              THEN Throw("sendNotificationToBackend")
              ELSE pc' = "done" /\ NoThrow
    /\ UNCHANGED <<input, network, idx, allDeployments, RPC_URL, disk,
                   chainState, pollState, history, calls>>

\* Mutant: the catch reports the failure without core.setFailed.
CatchSetsFailed_never(threw) == FALSE

\* core.setFailed(error.message) follows the awaited notification in the
\* catch, so it runs when the notification returns              index.js:523
CatchSetsFailed(threw) == ~threw

\* index.js:515-524: the "failed" notification, then core.setFailed.
Main_Catch ==
    /\ pc = "catch"
    /\ \E postOk \in BOOLEAN :
           LET n == sendNotificationToBackend(
                        [status |-> "failed", deployments |-> <<>>], postOk)
           IN  /\ notifications' = Append(notifications, n)
               /\ setFailedCalls' =
                      setFailedCalls
                          \cup (IF n.setFailed THEN {"sendNotificationToBackend"} ELSE {})
                          \cup (IF CatchSetsFailed(NotificationThrows(postOk))
                                THEN {"main"} ELSE {})
    /\ pc' = "done"
    /\ UNCHANGED <<input, network, idx, allDeployments, RPC_URL, disk, error,
                   thrownBy, chainState, pollState, history, calls>>

Next ==
    \/ Main_Start
    \/ Main_ReadInputs
    \/ Main_LoopHead
    \/ GetLatestBlockNumber
    \/ CreateNode
    \/ CheckNodeLiveness_Probe
    \/ CheckNodeLiveness_GiveUp
    \/ ExecuteDeploy
    \/ ProcessBroadcastDirectory
    \/ Main_Finish
    \/ Main_Catch

Spec == Init /\ [][Next]_vars

\* The inputs of the runs followed to their end: the lists of requests for
\* the latest block of a configured chain (whose resolution may fail), a
\* literal block and block 0, and the inputs that are no list.
LiveInputs ==
    {i \in Inputs :
        \A k \in 1..Len(i.network) :
            i.network[k] \in {Net(1, Undefined), Net(137, 5), Net(1, 0)}}

InitLive == Init /\ input \in LiveInputs

\* The run when every awaited call settles: main is one async function that
\* is resumed whenever the promise it awaits settles, so a step that is
\* possible is taken.
SpecLive == InitLive /\ [][Next]_vars /\ WF_vars(Next)

\* ------------------------------------------- reconciliation on its own

\* The run of one request with a literal block, on chain 1 or 137, at the
\* call of processBroadcastDirectory (index.js:434): the "started"
\* notification went through, the sandbox was created and is live, and the
\* deploy command has exited with code 0, leaving any of ReconcileTrees.
InitReconcile ==
    /\ \E c \in {1, 137} :
           /\ input = [kind |-> "array", network |-> <<Net(c, 5)>>]
           /\ network = <<Net(c, 5)>>
           /\ sandboxRequests = <<SandboxRequest(c, SandboxIdOf(1), 5)>>
    /\ pc = "reconcile"
    /\ idx = 1
    /\ blockNumber = 5
    /\ rpcUrl = CreateResponse(1).rpcUrl
    /\ sandboxId = SandboxIdOf(1)
    /\ created = 1
    /\ attempts = 0
    /\ allDeployments = <<>>
    /\ env = [BUILDBEAR_RPC_URL |-> CreateResponse(1).rpcUrl,
              MNEMONIC |-> CreateResponse(1).mnemonic]
    /\ RPC_URL = [c \in DOMAIN RpcUrlCount |-> 0]
    /\ disk \in ReconcileTrees
    /\ setFailedCalls = {}
    /\ notifications =
           <<sendNotificationToBackend(
                 [status |-> "started", deployments |-> <<>>], TRUE)>>
    /\ error = FALSE
    /\ probes = 0
    /\ delays = 0
    /\ lastProbe = NoProbe
    /\ exitCode = 0
    /\ deployed = {1}
    /\ reconciled = {}
    /\ notLive = {}
    /\ exitedOne = {}
    /\ thrownBy = "none"
    /\ resolvedFor = {}
    /\ provisionedFor = {1}
    /\ rpcCalls = [c \in DOMAIN RpcUrlCount |-> <<>>]

\* The rest of the run from there.
NextReconcile ==
    \/ ProcessBroadcastDirectory
    \/ Main_LoopHead
    \/ Main_Finish
    \/ Main_Catch

SpecReconcile == InitReconcile /\ [][NextReconcile]_vars

\* ------------------------------------------------ reconciliation, twice

\* processBroadcastDirectory (index.js:64-165) is called once more for the
\* same request on the unmodified tree, and the record it returns is kept
\* next to the first.
ReconcileAgain ==
    /\ pc = "loop"
    /\ Len(allDeployments) = 1
    /\ LET data == processBroadcastDirectoryFrom(PreviousDeployments,
                                                 network[1].chainId, disk)
       IN  IF data.threw
           THEN /\ Throw("processBroadcastDirectory")
                /\ allDeployments' = allDeployments
           ELSE /\ allDeployments' =
                       Push(allDeployments,
                            DeploymentDetails(network[1], rpcUrl, sandboxId, data))
                /\ pc' = "again"
                /\ NoThrow
    /\ UNCHANGED <<input, network, idx, RPC_URL, disk, setFailedCalls,
                   notifications, chainState, pollState, history, calls>>

NextTwice ==
    \/ ProcessBroadcastDirectory
    \/ ReconcileAgain

SpecTwice == InitReconcile /\ [][NextTwice]_vars

\* ------------------------------------------------------------------ claims

\* The run has ended: the final notification was attempted.
Done == pc = "done"

\* The notification attempted last.
LastNotification == notifications[Len(notifications)]

\* all is a subsequence of reqs by chainId: some strictly increasing map of
\* positions matches every record with a request of the same chainId.
EmbedsInOrder(all, reqs) ==
    \E f \in [1..Len(all) -> 1..Len(reqs)] :
        /\ \A i, j \in 1..Len(all) : i < j => f[i] < f[j]
        /\ \A i \in 1..Len(all) : all[i].chainId = reqs[f[i]].chainId

\* The positions of the requests whose sandbox did not fail the liveness
\* poll, in request order.
LiveRequests ==
    LET IsLive(i) == i \notin notLive
    IN  SelectSeq([i \in 1..Len(network) |-> i], IsLive)

\* C1: in every reachable state the chainIds of the records of allDeployments
\* appear in the same relative order as in the input list, whatever the
\* outcome of each chain was.
C1_RecordsFollowRequestOrder == EmbedsInOrder(allDeployments, network)

\* C1 witness: a finished run with two records of different chains, one of
\* them after a deploy command that exited with code 1.
C1_Witness ==
    /\ Done
    /\ Len(allDeployments) = 2
    /\ allDeployments[1].chainId # allDeployments[2].chainId
    /\ exitedOne # {}

\* C2 as stated: when the loop ends without an error, the summary handed to
\* the notifier has one record for every requested chain, the chains that
\* never became live included.
C2_Original_OneRecordPerRequest ==
    (Done /\ ~error) =>
        /\ Len(allDeployments) = Len(network)
        /\ Len(LastNotification.deployments) = Len(network)

\* C2 as amended: when the loop ends without an error, the summary handed to
\* the notifier has exactly one record for every requested chain whose
\* sandbox became live, in request order, and none for the other chains.
C2_OneRecordPerLiveRequest ==
    (Done /\ ~error) =>
        /\ Len(allDeployments) = Len(LiveRequests)
        /\ Len(LastNotification.deployments) = Len(LiveRequests)
        /\ \A k \in 1..Len(LiveRequests) :
               /\ allDeployments[k].chainId = network[LiveRequests[k]].chainId
               /\ allDeployments[k].status = "success"

\* C2 witness: a run without error in which one chain was skipped as not
\* live and another one was recorded.
C2_Witness ==
    /\ Done
    /\ ~error
    /\ notLive # {}
    /\ Len(network) = 2
    /\ Len(allDeployments) = 1
    /\ Len(LastNotification.deployments) = 1

\* C3 as stated: a failure at a per-chain stage never ends the run; the catch
\* handler is not entered while a chain request is being processed.
C3_PerChainFailureKeepsRunning == pc = "catch" => idx > Len(network)

\* C4: checkNodeLiveness never issues more than maxRetries probes; while it
\* polls, every probe so far was unsuccessful; it returns true right after
\* probe N+1 when N < maxRetries probes were unsuccessful before; it returns
\* false only after maxRetries unsuccessful probes.
C4_LivenessProbeCount ==
    /\ probes <= DefaultMaxRetries
    /\ pc = "poll" => probes = attempts
    /\ pc = "deploy" => probes = attempts + 1 /\ attempts < DefaultMaxRetries
    /\ (pc = "loop" /\ probes > 0) =>
           /\ probes = DefaultMaxRetries
           /\ attempts = DefaultMaxRetries
           /\ (idx - 1) \in notLive

\* C4 witness: checkNodeLiveness has returned true on the last probe of its
\* budget, after maxRetries - 1 unsuccessful ones.
C4_Witness == pc = "deploy" /\ attempts = DefaultMaxRetries - 1

C6_NotLiveChainIsSkipped ==
    /\ [](notLive \cap (deployed \cup reconciled) = {})
    /\ [][notLive' # notLive =>
              /\ setFailedCalls' = setFailedCalls
              /\ allDeployments' = allDeployments
              /\ error' = error
              /\ pc' = "loop"
              /\ idx' = idx + 1]_vars

\* C6 witness: the first chain was skipped as not live, the second one was
\* deployed and reconciled, and the run ended without the failure signal.
C6_Witness ==
    /\ Done
    /\ notLive = {1}
    /\ 2 \in reconciled
    /\ ~Failed

C8_SetFailedIffExitCodeOne ==
    [][pc = "deploy" =>
           IF exitCode' = 1
           THEN "executeDeploy" \in setFailedCalls'
           ELSE setFailedCalls' = setFailedCalls]_vars

\* C8 witness: a deploy command was killed by a signal (null code) and the
\* failure signal is not set.
C8_Witness == pc = "reconcile" /\ exitCode = ExitNull /\ ~Failed

C10_InvalidRunSetsFailed ==
    (Done /\ ~error /\ LastNotification.validationFailed) => Failed

\* C11: an error of the notification call never leaves
\* sendNotificationToBackend.  The step of the "started" notification goes on
\* to reading the inputs without an error and changes nothing but the log of
\* notifications, whether or not the call went through; the step of the final
\* notification ends the run and leaves the chains that were resolved,
\* provisioned, deployed, reconciled and recorded as they were, and in the
\* catch handler core.setFailed is still reached after it.
C11_NotificationErrorNeverPropagates ==
    [][/\ pc = "start" =>
              /\ pc' = "config"
              /\ ~error'
              /\ UNCHANGED <<input, network, idx, allDeployments, RPC_URL, disk,
                             setFailedCalls, chainState, pollState, history, calls>>
       /\ pc \in {"summary", "catch"} =>
              /\ pc' = "done"
              /\ error' = error
              /\ UNCHANGED <<network, idx, allDeployments, sandboxRequests,
                             history, calls>>
       /\ pc = "catch" => "main" \in setFailedCalls']_vars

\* C11 witness: a run whose "started" and final notification calls both
\* failed ended without a fatal error and with a record for each of two chains.
C11_Witness ==
    /\ Done
    /\ ~error
    /\ ~notifications[1].posted
    /\ ~LastNotification.posted
    /\ Len(allDeployments) = 2

\* C12: a "started" notification is attempted before the inputs are read and
\* before any block is resolved or sandbox requested; until the run ends it
\* is the only notification; the run ends with exactly one more notification,
\* of status success or failed, and nothing happens after it.
C12_StartedThenOneFinalNotification ==
    /\ [](/\ notifications = <<>> =>
                 (pc = "start" /\ network = <<>> /\ created = 0 /\ resolvedFor = {})
          /\ notifications # <<>> => notifications[1].status = "started"
          /\ pc \notin {"start", "done"} => Len(notifications) = 1
          /\ Done <=> Len(notifications) = 2
          /\ Done => LastNotification.status \in {"success", "failed"})
    /\ [][pc # "done"]_vars

\* C12 witness: a run that recorded one chain and then failed ended with the
\* "started" notification followed by one notification of status failed.
C12_Witness ==
    /\ Done
    /\ error
    /\ Len(allDeployments) = 1
    /\ Len(notifications) = 2
    /\ LastNotification.status = "failed"

\* Request i has no usable chainId: the field is missing.
MissingChainId(request) == request.chainId = Undefined

\* C13: when the block resolution called for request i fails (its chainId has
\* no configured endpoint, or the fetch fails or answers with a status that
\* is not ok), the run is aborted at request i: the loop stays at i, no
\* sandbox is requested for i or any later request, and the run ends with the
\* failure signal set and a final notification of status failed.
C13_ResolutionFailureAbortsRun ==
    \A i \in resolvedFor :
        (~Configured(network[i].chainId) \/ (thrownBy = "getLatestBlockNumber" /\ i = idx)) =>
            /\ pc \in {"catch", "done"}
            /\ idx = i
            /\ \A j \in i..Len(network) : j \notin provisionedFor
            /\ Done => /\ "main" \in setFailedCalls
                       /\ LastNotification.status = "failed"

\* C13 witness: the fetch for the second request, on a configured chain,
\* failed after the first chain was recorded, and the run has ended.
C13_Witness ==
    /\ Done
    /\ thrownBy = "getLatestBlockNumber"
    /\ idx = 2
    /\ Configured(network[2].chainId)
    /\ Len(allDeployments) = 1
    /\ provisionedFor = {1}

\* C14 as stated: when createNode fails for request i the run ends without a
\* deploy command or a reconciliation for i and without anything for a later
\* request, and the records pushed for the requests before i are the
\* deployments reported by the final notification.
C14_CreationFailureKeepsEarlierRecords ==
    (Done /\ thrownBy = "createNode") =>
        /\ idx \notin deployed \cup reconciled
        /\ \A j \in (idx + 1)..Len(network) :
               j \notin resolvedFor \cup provisionedFor \cup deployed \cup reconciled
        /\ Len(LastNotification.deployments) = Len(allDeployments)
        /\ \A k \in 1..Len(allDeployments) :
               LastNotification.deployments[k].sandboxId = allDeployments[k].sandboxId

\* C15 as stated: with a chain-list input that is not valid JSON, or that has
\* a request without chainId at some position, no block is resolved, no
\* sandbox is requested and no deploy command is run for any request.
C15_ConfigurationErrorAbortsBeforeAnyChain ==
    (\/ input.kind = "notjson"
     \/ \E i \in 1..Len(input.network) : MissingChainId(input.network[i])) =>
        /\ resolvedFor = {}
        /\ provisionedFor = {}
        /\ deployed = {}

\* ---------------------------------------------- claims on reconciliation

\* processBroadcastDirectory has returned a record for the first request.
ReconcileReturned == Len(allDeployments) >= 1 /\ ~allDeployments[1].deployments.isNull

\* The record returned for the first request.
Record == allDeployments[1].deployments

\* The files of the tree that the program merges for the first request, in
\* walk order.
MergedFiles ==
    LET Match(e) == MatchesChain(e, network[1].chainId)
    IN  SelectSeq(disk.files, Match)

\* The receipts and the transactions of the merged files, file after file.
MergedReceipts == Flatten([i \in 1..Len(MergedFiles) |-> MergedFiles[i].receipts])
MergedTransactions ==
    Flatten([i \in 1..Len(MergedFiles) |-> MergedFiles[i].transactions])

RECURSIVE HexText(_)
\* The hexadecimal digits of a non-negative integer.
HexText(n) ==
    IF n < 16 THEN <<HexChars[n + 1]>>
    ELSE HexText(n \div 16) \o <<HexChars[(n % 16) + 1]>>

\* The number that a blockNumber text denotes, in decimal or after 0x in
\* hexadecimal.
ValueOf(text) ==
    CHOOSE n \in 0..40 : text = toString(n) \/ text = <<"0", "x">> \o HexText(n)

\* Some receipt of the record has the hash of transaction t.
Correlated(t) ==
    \E j \in 1..Len(Record.receipts) : Record.receipts[j].transactionHash = t.hash

\* The position of the first receipt of the record with the hash of t.
FirstReceipt(t) ==
    CHOOSE j \in 1..Len(Record.receipts) :
        /\ Record.receipts[j].transactionHash = t.hash
        /\ \A k \in 1..(j - 1) : Record.receipts[k].transactionHash # t.hash

\* C16: when reconciliation returns a record with at least one receipt, the
\* receipts are in ascending order of the number their blockNumber denotes,
\* and for every block number the receipts of that block are, in the same
\* order, the receipts of that block in the merged input.
C16_ReceiptsAscendingAndStable ==
    (ReconcileReturned /\ Len(Record.receipts) > 0) =>
        LET out == [i \in 1..Len(Record.receipts) |->
                       [Record.receipts[i] EXCEPT !.decodedLogs = <<>>]]
        IN  /\ \A p, q \in 1..Len(out) :
                   p < q => ValueOf(out[p].blockNumber) <= ValueOf(out[q].blockNumber)
            /\ \A i \in 1..Len(MergedReceipts) :
                   LET InBlock(r) == ValueOf(r.blockNumber) = ValueOf(MergedReceipts[i].blockNumber)
                   IN  SelectSeq(out, InBlock) = SelectSeq(MergedReceipts, InBlock)

\* C16 witness: a record of three receipts with different hashes was
\* returned, the first two of them in the same block, and the receipt that
\* is last in the record was first in the merged input.
C16_Witness ==
    /\ ReconcileReturned
    /\ Len(Record.receipts) = 3
    /\ Record.receipts[1].blockNumber = Record.receipts[2].blockNumber
    /\ Record.receipts[1].transactionHash # Record.receipts[2].transactionHash
    /\ MergedReceipts[1].transactionHash = Record.receipts[3].transactionHash
    /\ MergedReceipts[1].blockNumber # Record.receipts[1].blockNumber

\* C17 as stated: in a returned record every transaction that has a
\* correlated receipt stands at the index of that receipt.
C17_Original_CorrelatedAtSameIndex ==
    ReconcileReturned =>
        \A i \in 1..Len(Record.transactions) :
            Correlated(Record.transactions[i]) =>
                /\ i <= Len(Record.receipts)
                /\ Record.receipts[i].transactionHash = Record.transactions[i].hash

\* The transactions and the receipts of the record correspond one to one:
\* every transaction hash is the hash of exactly one receipt and every
\* receipt hash the hash of exactly one transaction.
OneToOne ==
    /\ \A i \in 1..Len(Record.transactions) :
           Cardinality({j \in 1..Len(Record.receipts) :
               Record.receipts[j].transactionHash = Record.transactions[i].hash}) = 1
    /\ \A j \in 1..Len(Record.receipts) :
           Cardinality({i \in 1..Len(Record.transactions) :
               Record.transactions[i].hash = Record.receipts[j].transactionHash}) = 1

\* C17 as amended: in a returned record whose transactions and receipts
\* correspond one to one, there are as many transactions as receipts and
\* every transaction stands at the index of its receipt.
C17_CorrelatedAtSameIndexWhenOneToOne ==
    (ReconcileReturned /\ OneToOne) =>
        /\ Len(Record.transactions) = Len(Record.receipts)
        /\ \A i \in 1..Len(Record.transactions) :
               Record.receipts[i].transactionHash = Record.transactions[i].hash

\* C17 witness: a record of three transactions and three receipts in one to
\* one correspondence was returned, and its transactions are not in the
\* order of the merged input.
C17_Witness ==
    /\ ReconcileReturned
    /\ OneToOne
    /\ Len(Record.transactions) = 3
    /\ Record.transactions # MergedTransactions

\* C18: in a returned record with at least one receipt, no transaction with
\* a correlated receipt stands before a transaction without one, and the
\* transactions with a correlated receipt are in the order of the positions
\* of their first correlated receipts.
C18_UnmatchedFirstThenReceiptOrder ==
    (ReconcileReturned /\ Len(Record.receipts) > 0) =>
        \A p, q \in 1..Len(Record.transactions) :
            p < q =>
                LET tp == Record.transactions[p]
                    tq == Record.transactions[q]
                IN  /\ ~(Correlated(tp) /\ ~Correlated(tq))
                    /\ (Correlated(tp) /\ Correlated(tq)) =>
                           FirstReceipt(tp) <= FirstReceipt(tq)

\* C18 witness: a record was returned in which a transaction without receipt
\* stands first although it was not first in the merged input, followed by
\* two transactions with receipts that swapped their order.
C18_Witness ==
    /\ ReconcileReturned
    /\ Len(Record.transactions) = 4
    /\ ~Correlated(Record.transactions[1])
    /\ MergedTransactions[1] # Record.transactions[1]
    /\ Correlated(Record.transactions[2])
    /\ \E i, j \in 1..4 :
           /\ i < j
           /\ MergedTransactions[i] = Record.transactions[3]
           /\ MergedTransactions[j] = Record.transactions[2]

\* seg is a segment of path: it stands between two separators, or between a
\* separator and an end of the path.
HasSegment(path, seg) ==
    \E i \in 1..Len(path) :
        /\ i + Len(seg) - 1 <= Len(path)
        /\ SubSeq(path, i, i + Len(seg) - 1) = seg
        /\ (i = 1 \/ path[i - 1] = "/")
        /\ (i + Len(seg) - 1 = Len(path) \/ path[i + Len(seg)] = "/")

\* C19 as stated: the record returned for chainId is made of exactly the
\* files named run-latest.json that have chainId as a segment of their path;
\* the run file of a chain whose identifier only contains the digits of
\* chainId contributes nothing.
C19_MergesExactlySegmentMatches ==
    ReconcileReturned =>
        LET chainId    == network[1].chainId
            OfChain(e) == /\ e.isFile
                          /\ e.name = "run-latest.json"
                          /\ HasSegment(e.path, toString(chainId))
            expected   == processBroadcastDirectory(
                              chainId, [disk EXCEPT !.files = SelectSeq(disk.files, OfChain)])
        IN  /\ Record.transactions = expected.transactions
            /\ Record.receipts = expected.receipts
            /\ Record.libraries = expected.libraries

\* C20 as stated: once processBroadcastDirectory has run, without a broadcast
\* directory it has returned null, and with a broadcast directory that holds
\* no run-latest.json file matching the chainId it has raised no error and
\* has returned a record with empty transactions, receipts and libraries.
C20_NullWithoutBroadcastEmptyWithoutMatch ==
    (1 \in reconciled) =>
        /\ ~disk.broadcast =>
               /\ thrownBy # "processBroadcastDirectory"
               /\ Len(allDeployments) >= 1
               /\ allDeployments[1].deployments.isNull
        /\ (disk.broadcast /\ MergedFiles = <<>>) =>
               /\ thrownBy # "processBroadcastDirectory"
               /\ ReconcileReturned
               /\ Record.transactions = <<>>
               /\ Record.receipts = <<>>
               /\ Record.libraries = <<>>

\* The tree without the run files that cannot be read or parsed.
WithoutBadRunFiles(tree) ==
    LET Parses(e) == e.parses
    IN  [tree EXCEPT !.files = SelectSeq(tree.files, Parses)]

\* C21 as stated: when a file that the program would merge for the chain
\* cannot be read or parsed, processBroadcastDirectory has not thrown, the
\* chain is recorded, and the record is the one the other files give.
C21_BadRunFileIsSkipped ==
    (/\ 1 \in reconciled
     /\ disk.broadcast
     /\ \E i \in 1..Len(MergedFiles) : ~MergedFiles[i].parses) =>
        LET expected == processBroadcastDirectory(network[1].chainId,
                                                  WithoutBadRunFiles(disk))
        IN  /\ thrownBy # "processBroadcastDirectory"
            /\ ReconcileReturned
            /\ Record.transactions = expected.transactions
            /\ Record.receipts = expected.receipts
            /\ Record.libraries = expected.libraries

\* C22 as stated: when a JSON file under build/ cannot be read or parsed,
\* processBroadcastDirectory has not thrown and has returned the record it
\* returns for the same tree without that build file.
C22_BadBuildFileIsSkipped ==
    (1 \in reconciled /\ disk.broadcast /\ ~disk.buildOk) =>
        LET expected == processBroadcastDirectory(network[1].chainId,
                                                  [disk EXCEPT !.buildOk = TRUE])
        IN  \/ expected.threw
            \/ /\ thrownBy # "processBroadcastDirectory"
               /\ ReconcileReturned
               /\ Record.transactions = expected.transactions
               /\ Record.receipts = expected.receipts
               /\ Record.libraries = expected.libraries

RequestSentFor(i) == sandboxRequests[Cardinality({j \in provisionedFor : j <= i})]

\* C24 as stated: the resolver is called for a request if and only if its
\* blockNumber is absent, and the creation request of a request with a
\* blockNumber carries exactly that block number.
C24_ResolverIffBlockAbsent ==
    \A i \in 1..Len(network) :
        /\ i \in resolvedFor => network[i].blockNumber = Undefined
        /\ (i \in provisionedFor /\ network[i].blockNumber = Undefined) =>
               i \in resolvedFor
        /\ (i \in provisionedFor /\ network[i].blockNumber # Undefined) =>
               RequestSentFor(i).blockNumber = network[i].blockNumber

\* C25: in every reachable state the cursor of every configured chainId is
\* at least 0 and less than the length L of its list, and the k-th call of
\* the resolver for the chainId, failed or not, used urls[(k - 1) mod L]; a
\* call of the resolver leaves the cursors of the other chainIds as they were.
C25_RoundRobinCursor ==
    /\ [](\A c \in DOMAIN RPC_URL :
              /\ 0 <= RPC_URL[c]
              /\ RPC_URL[c] < RpcUrlCount[c]
              /\ \A k \in 1..Len(rpcCalls[c]) :
                     rpcCalls[c][k] = (k - 1) % RpcUrlCount[c])
    /\ [][pc = "resolve" =>
              \A c \in DOMAIN RPC_URL :
                  c # net.chainId =>
                      RPC_URL'[c] = RPC_URL[c] /\ rpcCalls'[c] = rpcCalls[c]]_vars

\* C25 witness: the resolver was called twice for chain 1, and the second
\* call failed.
C25_Witness ==
    /\ Len(rpcCalls[1]) = 2
    /\ thrownBy = "getLatestBlockNumber"
    /\ idx = 2

\* C26: in every reachable state the creation requests sent are as many as
\* the chain requests for which createNode was called, and every step that
\* sends a creation request sends one, for a chain request that had none
\* before, in a run in which no call has failed: no creation is repeated
\* for a request and none follows a failed one.
C26_AtMostOneCreationPerRequest ==
    /\ [](/\ created = Cardinality(provisionedFor)
          /\ Len(sandboxRequests) = created
          /\ provisionedFor \subseteq 1..Len(network))
    /\ [][created' # created =>
              /\ created' = created + 1
              /\ Len(sandboxRequests') = Len(sandboxRequests) + 1
              /\ idx \notin provisionedFor
              /\ thrownBy = "none"]_vars

\* C26 witness: the run has ended after the creation for the second request
\* failed; two creation requests were sent in all.
C26_Witness ==
    /\ Done
    /\ thrownBy = "createNode"
    /\ idx = 2
    /\ created = 2
    /\ Len(sandboxRequests) = 2

\* C27: when the deploy command of chain i is about to be spawned, the
\* exported RPC URL and mnemonic are those of the answer to the creation
\* request for chain i, which is the latest creation request of the run; and
\* the step of the deploy command resolves no block, sends no creation
\* request, issues no probe and leaves the exported variables and the
\* position in the chain list as they are.
C27_DeployReadsOwnSandbox ==
    /\ [](pc = "deploy" =>
              /\ idx \in provisionedFor
              /\ \A j \in provisionedFor : j <= idx
              /\ created = Cardinality(provisionedFor)
              /\ env.BUILDBEAR_RPC_URL = CreateResponse(created).rpcUrl
              /\ env.MNEMONIC = CreateResponse(created).mnemonic
              /\ rpcUrl = env.BUILDBEAR_RPC_URL)
    /\ [][pc = "deploy" =>
              /\ UNCHANGED <<resolvedFor, provisionedFor, rpcCalls, RPC_URL,
                             created, sandboxRequests, env, idx>>
              /\ probes' = 0]_vars

\* C27 witness: the deploy command of the second chain is about to be
\* spawned, after the first chain was deployed and recorded.
C27_Witness ==
    /\ pc = "deploy"
    /\ idx = 2
    /\ created = 2
    /\ Len(allDeployments) = 1

RECURSIVE Joined(_)
\* The elements of the sequences of ss, one sequence after the other.
Joined(ss) ==
    IF ss = <<>> THEN <<>>
    ELSE Joined(SubSeq(ss, 1, Len(ss) - 1)) \o ss[Len(ss)]

\* a and b hold the same elements the same number of times.
IsPermutation(a, b) ==
    /\ Len(a) = Len(b)
    /\ \A i \in 1..Len(a) :
           Cardinality({j \in 1..Len(a) : a[j] = a[i]})
               = Cardinality({j \in 1..Len(b) : b[j] = a[i]})

\* The receipts of the record without their decodedLogs.
RecordReceiptsAsRead ==
    [i \in 1..Len(Record.receipts) |-> [Record.receipts[i] EXCEPT !.decodedLogs = <<>>]]

\* C28: in a returned record the libraries are the libraries arrays of the
\* merged files one after the other in walk order, and the transactions and
\* the receipts (leaving decodedLogs aside) are permutations of the merged
\* files' transactions and receipts arrays one after the other: nothing is
\* dropped and nothing is deduplicated.
C28_MergeIsConcatenation ==
    ReconcileReturned =>
        /\ Record.libraries =
               Joined([i \in 1..Len(MergedFiles) |-> MergedFiles[i].libraries])
        /\ IsPermutation(Record.transactions,
               Joined([i \in 1..Len(MergedFiles) |-> MergedFiles[i].transactions]))
        /\ IsPermutation(RecordReceiptsAsRead,
               Joined([i \in 1..Len(MergedFiles) |-> MergedFiles[i].receipts]))

\* C28 witness: a record was returned for two merged files with the same
\* content: every transaction, receipt and library is there twice.
C28_Witness ==
    /\ ReconcileReturned
    /\ Len(MergedFiles) = 2
    /\ MergedFiles[1].transactions = MergedFiles[2].transactions
    /\ Len(Record.transactions) = 4
    /\ Len(Record.receipts) = 4
    /\ Len(Record.libraries) = 2

\* C29: in a returned record with at least one receipt, every receipt has as
\* many decodedLogs as logs, the i-th decoded log has the event name "Event"
\* and the data and topics of the i-th log, and the receipt without its
\* decodedLogs is a receipt of a merged file.
C29_DecodedLogsMirrorLogs ==
    (ReconcileReturned /\ Len(Record.receipts) > 0) =>
        \A k \in 1..Len(Record.receipts) :
            LET r == Record.receipts[k]
            IN  /\ Len(r.decodedLogs) = Len(r.logs)
                /\ \A i \in 1..Len(r.logs) :
                       /\ r.decodedLogs[i].eventName = "Event"
                       /\ r.decodedLogs[i].data = r.logs[i].data
                       /\ r.decodedLogs[i].topics = r.logs[i].topics
                /\ \E f \in 1..Len(MergedFiles) :
                       \E j \in 1..Len(MergedFiles[f].receipts) :
                           MergedFiles[f].receipts[j] = RecordReceiptsAsRead[k]

\* C29 witness: a record was returned with a receipt of two different logs
\* and a receipt without logs.
C29_Witness ==
    /\ ReconcileReturned
    /\ \E k \in 1..Len(Record.receipts) :
           /\ Len(Record.receipts[k].decodedLogs) = 2
           /\ Record.receipts[k].logs[1] # Record.receipts[k].logs[2]
    /\ \E k \in 1..Len(Record.receipts) : Record.receipts[k].logs = <<>>

\* C30: every step leaves the records that are in the list where they are
\* and as they are: the list after the step begins with the list before it
\* and has at most one record more; and once the final notification has been
\* attempted the list does not change.
C30_RecordsOnlyAppended ==
    [][/\ Len(allDeployments') \in {Len(allDeployments), Len(allDeployments) + 1}
       /\ SubSeq(allDeployments', 1, Len(allDeployments)) = allDeployments
       /\ pc = "done" => allDeployments' = allDeployments]_vars

\* C30 witness: the run has ended with two records, the first of which was
\* in the list before the second chain was processed.
C30_Witness ==
    /\ Done
    /\ ~error
    /\ Len(allDeployments) = 2
    /\ Len(LastNotification.deployments) = 2
    /\ allDeployments[1].sandboxId # allDeployments[2].sandboxId

\* C31: the delay is taken only between two probes of a call of
\* checkNodeLiveness: while the call is running or has just returned, the
\* number of delays awaited is the number of probes that another probe
\* follows (one per probe while the loop goes on), so that no delay follows
\* the last probe, neither when it found the node live nor when the retry
\* budget is exhausted.
C31_DelayOnlyBetweenProbes ==
    (probes > 0 /\ pc \in {"poll", "deploy", "loop"}) =>
        IF pc = "poll" /\ LoopContinues(attempts, DefaultMaxRetries)
        THEN delays = probes
        ELSE delays = probes - 1

\* C32: when the run has ended and its final notification carries the status
\* "success", the failure signal is not set: the status reported and the
\* signal agree, also for a run in which a deploy command exited with code 1.
C32_SuccessMeansSignalNotSet ==
    (Done /\ LastNotification.status = "success") => ~Failed

\* The number of the creation request that was sent for request i.
CreationOf(i) == Cardinality({j \in provisionedFor : j <= i})

\* C33: the k-th record belongs to the k-th request whose sandbox did not
\* fail the liveness poll; for that request exactly one creation request was
\* sent, its deploy command has exited and its reconciliation has returned,
\* and the record carries the chainId of the request, the sandboxId sent in
\* that creation request and the rpcUrl of the answer to it, which no other
\* record carries.  A step that appends a record is the step in which the
\* reconciliation of the current request returns, after its deploy command
\* exited.
C33_RecordProvenance ==
    /\ [](/\ Len(allDeployments) <= Len(LiveRequests)
          /\ \A k \in 1..Len(allDeployments) :
                 LET i == LiveRequests[k]
                     record == allDeployments[k]
                 IN  /\ i \in provisionedFor
                     /\ i \notin notLive
                     /\ i \in deployed
                     /\ i \in reconciled
                     /\ Cardinality({n \in 1..Len(sandboxRequests) :
                            sandboxRequests[n].nodeName = record.sandboxId}) = 1
                     /\ record.chainId = network[i].chainId
                     /\ record.sandboxId = RequestSentFor(i).nodeName
                     /\ record.sandboxId = SandboxIdOf(CreationOf(i))
                     /\ record.rpcUrl = CreateResponse(CreationOf(i)).rpcUrl
                     /\ \A l \in 1..Len(allDeployments) :
                            l # k => /\ allDeployments[l].sandboxId # record.sandboxId
                                     /\ allDeployments[l].rpcUrl # record.rpcUrl)
    /\ [][allDeployments' # allDeployments =>
              /\ pc = "reconcile"
              /\ idx \in deployed
              /\ idx \notin reconciled
              /\ idx \in reconciled'
              /\ idx \notin notLive
              /\ Len(allDeployments') = Len(allDeployments) + 1
              /\ LiveRequests[Len(allDeployments')] = idx]_vars

\* C33 witness: the run has ended with one record, which belongs to the
\* second request and carries the sandbox of the second creation request,
\* the sandbox of the first request never having become live.
C33_Witness ==
    /\ Done
    /\ ~error
    /\ notLive = {1}
    /\ Len(allDeployments) = 1
    /\ created = 2
    /\ allDeployments[1].sandboxId = SandboxIdOf(2)
    /\ allDeployments[1].rpcUrl = CreateResponse(2).rpcUrl
    /\ allDeployments[1].chainId = network[2].chainId

\* C34: when every awaited call settles, every run reaches the end of main,
\* where its final notification has been attempted; every liveness poll that
\* is running ends, and no poll issues more than maxRetries probes.
C34_EveryRunTerminates ==
    /\ <>Done
    /\ [](pc = "poll" => <>(pc # "poll"))
    /\ [](probes <= DefaultMaxRetries)

\* C34 witness: a run of two requests has ended, after a liveness poll that
\* used up all its probes and a deploy command that exited.
C34_Witness ==
    /\ Done
    /\ Len(network) = 2
    /\ notLive = {1}
    /\ deployed = {2}
    /\ Len(notifications) = 2

=============================================================================
